---- MODULE Spec2Model ----
(***************************************************************************)
(* A model of hypatia's sprite animation code (src/hypatia/animations.py): *)
(* the frame table AnimatedSprite.frames_from_gif builds, the playback     *)
(* step AnimatedSprite.update, the per-frame anchor lookup of AnimAnchors, *)
(* the loading of a Walkabout from a resource bundle and Walkabout.blit.   *)
(*                                                                         *)
(* Reading of the source.  AnimatedSprite.update takes no argument and     *)
(* writes bare names, so the playback state it keeps between calls is      *)
(* modelled as the sprite's fields, ONE FIELD PER NAME AS SPELLED:         *)
(*   animation_time, current_frame_index   the names lines 361-367 use;    *)
(*   current_frame       the name line 368 increments (a different name    *)
(*                       from current_frame_index, which the loop reads);  *)
(*   elapsed_timedelta   the time since the last update (comment, line     *)
(*                       359): the input of a call;                        *)
(*   elapsed_time        the name line 363 tests.  Nothing binds it, so    *)
(*                       the model lets it read either of the two time     *)
(*                       values the method has: animation_time (the        *)
(*                       docstring's animTime) or elapsed_timedelta (the   *)
(*                       docstring's elapsedTime).  A sprite is built      *)
(*                       with one of the two readings.                     *)
(* In frames_from_gif, line 427 adds to time_posiiton, a different name    *)
(* from the time_position line 422 passes as start_time.                   *)
(*                                                                         *)
(* Walkabout is read the same way.  __init__ calls                          *)
(* create_animations_and_anchors, which nothing defines: the model runs    *)
(* update_animations there, the method that creates the animations and     *)
(* anchors.  self.child_walkabouts (blit, runtime_setup) is bound nowhere  *)
(* and reads the one list of children the object has, self.children.       *)
(* self.animation_anchors is written by update_animations, so it is a      *)
(* field of its own: when the loop first subscripts it, it is either still *)
(* unbound or the empty dict __init__ creates as self.anchors; a walkabout *)
(* is built under one of the two readings.  action and direction are set   *)
(* by __init__ and by nothing else in the source.  The frame an animation  *)
(* is at comes from pyganim and the wall clock: it is an input.            *)
(*                                                                         *)
(* Times are kept in the GIF's integer unit (thousandths of a second);     *)
(* line 418 stores the same quantity as a float number of seconds.         *)
(* Frame indices are 0-based as in the source; TLA+ sequences are 1-based. *)
(***************************************************************************)
EXTENDS Integers, Sequences, FiniteSets, TLC

\* ------------------------------------------------------------------ bounds
MaxFrames == 3        \* frames in a GIF
MaxDuration == 2      \* a frame's duration
MaxDelta == 7         \* elapsed_timedelta of one update call
MaxTime == 9          \* cap on animation_time (it would grow without bound)
MaxScan == 3          \* cap on current_frame (it would grow without bound)
MaxAnchors == 2       \* entries of one anchor group in an INI section
MaxFrameIndex == 3    \* largest frame index asked of get_anchor_point

VARIABLES
  frames,               \* AnimatedSprite.frames
  total_duration,       \* AnimatedSprite.total_duration
  animation_time,       \* playback time
  current_frame_index,  \* index of the active frame (0-based)
  current_frame,        \* the name line 368 increments
  elapsed_time_reads,   \* which time value the name elapsed_time reads
  elapsed_timedelta,    \* argument of the last update call
  pc,                   \* "idle": between calls; "scan": inside the while loop
  anchor_ini,           \* the parsed INI: section -> items in file order
  anchor_points,        \* AnimAnchors.anchor_points
  anchor_groups,        \* AnimAnchors.anchor_groups
  query,                \* arguments of the last get_anchor_point call
  outcome,              \* what that call returned or raised
  resource,             \* Resource.files of the bundle, in iteration order
  walkabout,            \* the Walkabout a constructor call builds
  setup,                \* how Walkabout.runtime_setup ended
  selected,             \* the last animation selection and how it ended
  scene,                \* the walkabouts drawn: scene[1] and its children
  clock,                \* frame index each walkabout's animation is at
  screen,               \* what the last blit drew, in drawing order
  blitted,              \* the last blit call and how it ended
  player,               \* a HumanPlayer's walkabout and velocity
  world,                \* the pixels of the scene something stands on
  moved,                \* the last move call
  reported              \* the last relative call and its result

anim_vars == <<frames, total_duration, animation_time, current_frame_index,
               current_frame, elapsed_time_reads, elapsed_timedelta, pc>>
anchor_vars == <<anchor_ini, anchor_points, anchor_groups, query, outcome>>
load_vars == <<resource, walkabout, setup, selected>>
blit_vars == <<scene, clock, screen, blitted>>
move_vars == <<player, world, moved, reported>>
walk_vars == <<load_vars, blit_vars, move_vars>>
vars == <<anim_vars, anchor_vars, walk_vars>>

\* A specification runs one component; the others are not part of it.
LoadIdle ==
  /\ resource = <<>>
  /\ walkabout = <<>>
  /\ setup = ""
  /\ selected = <<>>

BlitIdle ==
  /\ scene = <<>>
  /\ clock = <<>>
  /\ screen = <<>>
  /\ blitted = <<>>

MoveIdle ==
  /\ player = <<>>
  /\ world = {}
  /\ moved = <<>>
  /\ reported = <<>>

WalkIdle == LoadIdle /\ BlitIdle /\ MoveIdle

\* ------------------------------------------------------------ frame table

\* AnimatedSpriteFrame.__init__
AnimatedSpriteFrame(start_time, duration) ==
  [start_time |-> start_time, duration |-> duration,
   end_time |-> start_time + duration]

\* Line 427, `time_posiiton += duration`: the sum goes to another name, and
\* time_position keeps its value.
TimePositionAfterFrame(time_position, duration) == time_position

\* frames_from_gif: one frame per GIF image, until seek() raises EOFError.
RECURSIVE FramesFromGifLoop(_, _, _, _)
FramesFromGifLoop(durations, frame_index, time_position, acc) ==
  IF frame_index = Len(durations) THEN acc
  ELSE LET duration == durations[frame_index + 1]
           frame == AnimatedSpriteFrame(time_position, duration)
       IN FramesFromGifLoop(durations, frame_index + 1,
                            TimePositionAfterFrame(time_position, duration),
                            Append(acc, frame))

FramesFromGif(durations) == FramesFromGifLoop(durations, 0, 0, <<>>)

\* total_duration: the sum of the frame durations.
RECURSIVE TotalDuration(_)
TotalDuration(durations) ==
  IF durations = <<>> THEN 0
  ELSE Head(durations) + TotalDuration(Tail(durations))

Durations(fs) == [i \in 1..Len(fs) |-> fs[i].duration]

GifDurations == UNION {[1..n -> 1..MaxDuration] : n \in 1..MaxFrames}

\* AnimatedSprite.__init__: the frame table, the total, playback at the start.
AnimInit ==
  /\ \E durations \in GifDurations :
       /\ frames = FramesFromGif(durations)
       /\ total_duration = TotalDuration(durations)
  /\ animation_time = 0
  /\ current_frame_index = 0
  /\ current_frame = 0
  /\ elapsed_time_reads \in {"animation_time", "elapsed_timedelta"}
  /\ elapsed_timedelta = 0
  /\ pc = "idle"

\* ---------------------------------------------------------------- update

\* Line 358 as if it let single-frame sprites through.
UpdateGuard_AnyFrames(fs) == Len(fs) >= 1

\* Line 358: single-frame sprites are left alone.
UpdateGuard(fs) == Len(fs) > 1

\* Line 361 as if every call advanced the time by at least one unit.
AddElapsed_MinimumStep(t, d) == t + (IF d < 1 THEN 1 ELSE d)

\* Line 361.
AddElapsed(t, d) == t + d

\* The value the name elapsed_time reads at line 363.
ElapsedTime(reads, t, d) == IF reads = "animation_time" THEN t ELSE d

\* Line 363.
WrapTest(reads, t, d, total) == ElapsedTime(reads, t, d) > total

\* Line 367: the while condition.  Reading frames[i] past the end raises.
IndexError(fs, i) == i < 0 \/ i >= Len(fs)
LoopCondition(fs, t, i) == t > fs[i + 1].end_time

\* Where the call stands when it evaluates the while condition.
AtLoopHead(fs, t, i) ==
  IF IndexError(fs, i) THEN "IndexError"
  ELSE IF LoopCondition(fs, t, i) THEN "scan" ELSE "idle"

\* Line 368 as if it incremented the index the condition reads.
ScanBody_IncrementsIndex(i, c) ==
  [current_frame_index |-> i + 1, current_frame |-> c]

\* Line 368: the loop body, `current_frame += 1`.
ScanBody(i, c) == [current_frame_index |-> i, current_frame |-> c + 1]

\* update(): lines 358-367, up to the first evaluation of the while condition:
\* what a call made between calls does to the playback state.
UpdateCall(fs, total, reads, t, i, d) ==
  IF UpdateGuard(fs)
  THEN LET t1 == AddElapsed(t, d)
           wrap == WrapTest(reads, t1, d, total)
           t2 == IF wrap THEN t1 % total ELSE t1
           i2 == IF wrap THEN 0 ELSE i
       IN [animation_time |-> t2, current_frame_index |-> i2,
           pc |-> AtLoopHead(fs, t2, i2)]
  ELSE [animation_time |-> t, current_frame_index |-> i, pc |-> "idle"]

Update(d) ==
  /\ pc = "idle"
  /\ animation_time + d <= MaxTime
  /\ elapsed_timedelta' = d
  /\ LET after == UpdateCall(frames, total_duration, elapsed_time_reads,
                             animation_time, current_frame_index, d)
     IN /\ animation_time' = after.animation_time
        /\ current_frame_index' = after.current_frame_index
        /\ pc' = after.pc
  /\ UNCHANGED <<frames, total_duration, current_frame, elapsed_time_reads>>
  /\ UNCHANGED <<anchor_vars, walk_vars>>

\* One pass of the while loop (line 368), then the condition again (line 367).
ScanStep ==
  /\ pc = "scan"
  /\ current_frame < MaxScan
  /\ LET after == ScanBody(current_frame_index, current_frame)
     IN /\ current_frame_index' = after.current_frame_index
        /\ current_frame' = after.current_frame
        /\ pc' = AtLoopHead(frames, animation_time, after.current_frame_index)
  /\ UNCHANGED <<frames, total_duration, animation_time, elapsed_time_reads,
                 elapsed_timedelta>>
  /\ UNCHANGED <<anchor_vars, walk_vars>>

\* The anchor table is not part of the playback specification.
AnchorIdle ==
  /\ anchor_ini = <<>>
  /\ anchor_points = <<>>
  /\ anchor_groups = <<>>
  /\ query = <<>>
  /\ outcome = <<>>

Init == AnimInit /\ AnchorIdle /\ WalkIdle

Next == (\E d \in 0..MaxDelta : Update(d)) \/ ScanStep

Spec == Init /\ [][Next]_vars

\* ----------------------------------------------------------- AnimAnchors

\* AnchorPoint.__init__
AnchorPoint(x, y) == [x |-> x, y |-> y]

AnchorGroupNames == {"head_anchor", "hand_anchor"}

\* The value an author writes for frame `key` of `group`: every (group, key)
\* gets a coordinate of its own, so that a lookup shows which entry it read.
AuthoredValue(group, key) ==
  IF group = "head_anchor" THEN <<key, key + 2>> ELSE <<key + 10, key + 20>>

\* The items of one INI section, in file order: options with distinct keys.
SectionItems(group) ==
  {[i \in 1..Len(keys) |-> [key |-> keys[i], value |-> AuthoredValue(group, keys[i])]] :
     keys \in {ks \in UNION {[1..n -> 0..MaxAnchors] : n \in 0..MaxAnchors} :
                 \A i, j \in 1..Len(ks) : i # j => ks[i] # ks[j]}}

\* Parsed INI files: up to two sections with distinct names, in file order.
OneSection(g) == {<<[name |-> g, items |-> it]>> : it \in SectionItems(g)}

AnchorInis ==
  {<<>>}
  \cup UNION {OneSection(g) : g \in AnchorGroupNames}
  \cup UNION {{s \o t : s \in OneSection(g), t \in OneSection(h)} :
              <<g, h>> \in {p \in AnchorGroupNames \X AnchorGroupNames : p[1] # p[2]}}

\* Lines 162-165: the section's items in the order items() yields them, each
\* value split at the comma into an AnchorPoint; the key is dropped.
SectionAnchors(items) ==
  [i \in 1..Len(items) |-> AnchorPoint(items[i].value[1], items[i].value[2])]

\* from_config: lines 155-167.
FromConfig(ini) ==
  LET anchor_point_groups == [i \in 1..Len(ini) |-> ini[i].name]
      names == {ini[i].name : i \in 1..Len(ini)}
      section(name) == CHOOSE i \in 1..Len(ini) : ini[i].name = name
  IN [anchor_points |-> [name \in names |-> SectionAnchors(ini[section(name)].items)],
      anchor_groups |-> anchor_point_groups]

NoPoint == <<>>

\* A Python list subscript: a negative index counts from the end.
ListIndex(list, k) ==
  IF 0 <= k /\ k < Len(list) THEN [raised |-> "none", point |-> list[k + 1]]
  ELSE IF k < 0 /\ -k <= Len(list) THEN [raised |-> "none", point |-> list[Len(list) + k + 1]]
  ELSE [raised |-> "IndexError", point |-> NoPoint]

\* get_anchor_point with the handler returning the group's first entry.
GetAnchorPoint_FirstOnMiss(points, anchor_point_group, frame_index) ==
  IF anchor_point_group \notin DOMAIN points
  THEN [raised |-> "KeyError", point |-> NoPoint]
  ELSE LET exact == ListIndex(points[anchor_point_group], frame_index)
       IN IF exact.raised = "IndexError"
          THEN ListIndex(points[anchor_point_group], 0)
          ELSE exact

\* get_anchor_point with a dictionary lookup that falls back to some group.
GetAnchorPoint_DefaultGroup(points, anchor_point_group, frame_index) ==
  LET group == IF anchor_point_group \in DOMAIN points \/ DOMAIN points = {}
               THEN anchor_point_group
               ELSE CHOOSE g \in DOMAIN points : TRUE
  IN IF group \notin DOMAIN points
     THEN [raised |-> "KeyError", point |-> NoPoint]
     ELSE LET exact == ListIndex(points[group], frame_index)
          IN IF exact.raised = "IndexError"
             THEN ListIndex(points[group], -1)
             ELSE exact

\* get_anchor_point: lines 193-199.  Only IndexError is handled; the KeyError
\* of an unknown group, and the IndexError of an empty group, reach the caller.
GetAnchorPoint(points, anchor_point_group, frame_index) ==
  IF anchor_point_group \notin DOMAIN points
  THEN [raised |-> "KeyError", point |-> NoPoint]
  ELSE LET exact == ListIndex(points[anchor_point_group], frame_index)
       IN IF exact.raised = "IndexError"
          THEN ListIndex(points[anchor_point_group], -1)
          ELSE exact

NotCalled == [raised |-> "not called", point |-> NoPoint]

\* The sprite is not part of the anchor specification.
AnimIdle ==
  /\ frames = <<>>
  /\ total_duration = 0
  /\ animation_time = 0
  /\ current_frame_index = 0
  /\ current_frame = 0
  /\ elapsed_time_reads = "animation_time"
  /\ elapsed_timedelta = 0
  /\ pc = "idle"

AnchorInit ==
  /\ anchor_ini \in AnchorInis
  /\ anchor_points = FromConfig(anchor_ini).anchor_points
  /\ anchor_groups = FromConfig(anchor_ini).anchor_groups
  /\ query = [anchor_point_group |-> "", frame_index |-> 0]
  /\ outcome = NotCalled
  /\ AnimIdle
  /\ WalkIdle

\* A call of get_anchor_point.
Lookup(anchor_point_group, frame_index) ==
  /\ query' = [anchor_point_group |-> anchor_point_group, frame_index |-> frame_index]
  /\ outcome' = GetAnchorPoint(anchor_points, anchor_point_group, frame_index)
  /\ UNCHANGED <<anchor_ini, anchor_points, anchor_groups>>
  /\ UNCHANGED <<anim_vars, walk_vars>>

AnchorNext ==
  \E g \in AnchorGroupNames, k \in (0 - MaxFrameIndex)..MaxFrameIndex : Lookup(g, k)

AnchorSpec == AnchorInit /\ [][AnchorNext]_vars

\* ------------------------------------------------------ Walkabout loading
\* A file of a bundle is kept as os.path.splitext leaves it: stem and
\* extension.  A stem is the sequence of its pieces, "_" being a piece of its
\* own, so that str.split has something to split: walk_north is
\* <<"walk", "_", "north">>.

MaxFiles == 3         \* files of a generated bundle

File(stem, ext) == [stem |-> stem, ext |-> ext]
Stem(action, direction) == <<action, "_", direction>>
NoFile == File(<<>>, "")

\* constants.Action and constants.Direction, as far as the source names
\* their members.
ActionMembers == {"stand", "walk"}
DirectionMembers == {"north", "south", "east", "west"}

\* The files generated bundles are made of.
BundleFiles ==
  { File(<<"only">>, ".gif"), File(<<"only">>, ".ini"),
    File(Stem("stand", "south"), ".gif"), File(Stem("stand", "south"), ".ini"),
    File(Stem("stand", "north"), ".gif"),
    File(Stem("walk", "north"), ".gif"),
    File(<<"walk">>, ".gif"),
    File(Stem("walk", "up"), ".gif"),
    File(<<"readme">>, ".txt") }

\* Resource.files is a dict: distinct names, in some iteration order.
RECURSIVE Orderings(_, _)
Orderings(files, n) ==
  IF n = 0 THEN {<<>>}
  ELSE {<<>>} \cup
       UNION {{<<f>> \o rest : rest \in Orderings(files \ {f}, n - 1)} : f \in files}

\* The "debug" bundle of the docstrings: every action_direction.gif with its
\* .ini beside it.
ActionOrder == <<"walk", "stand">>
DirectionOrder == <<"north", "south", "east", "west">>
DebugBundle ==
  [i \in 1..16 |->
     LET pair == (i - 1) \div 2
         stem == Stem(ActionOrder[(pair \div 4) + 1], DirectionOrder[(pair % 4) + 1])
     IN File(stem, IF i % 2 = 1 THEN ".gif" ELSE ".ini")]

Bundles == Orderings(BundleFiles, MaxFiles) \cup {DebugBundle}

Range(seq) == {seq[i] : i \in 1..Len(seq)}

\* dict: a function with a finite domain.
EmptyDict == [k \in {} |-> k]
Put(dict, key, value) ==
  [k \in DOMAIN dict \cup {key} |-> IF k = key THEN value ELSE dict[k]]

\* try: d[action][direction] = value / except KeyError: d[action] = {direction: value}
NestedPut(dict, action, direction, value) ==
  IF action \in DOMAIN dict
  THEN Put(dict, action, Put(dict[action], direction, value))
  ELSE Put(dict, action, Put(EmptyDict, direction, value))

HasEntry(dict, action, direction) ==
  action \in DOMAIN dict /\ direction \in DOMAIN dict[action]

\* Resource.get_type: the files with the extension, or None when there are none.
None == [is_none |-> TRUE, files |-> <<>>]

GetType_AnyExtension(files, file_extension) ==
  LET matching_files == files
  IN IF matching_files = <<>> THEN None
     ELSE [is_none |-> FALSE, files |-> matching_files]

GetType(files, file_extension) ==
  LET matching_files == SelectSeq(files, LAMBDA f : f.ext = file_extension)
  IN IF matching_files = <<>> THEN None
     ELSE [is_none |-> FALSE, files |-> matching_files]

\* `not sprite_files`
Not(sprite_files) == sprite_files.is_none \/ sprite_files.files = <<>>

\* file_name.split('_', 1)
Split(file_name) ==
  LET underscores == {i \in 1..Len(file_name) : file_name[i] = "_"}
  IN IF underscores = {} THEN <<file_name>>
     ELSE LET first == CHOOSE i \in underscores : \A j \in underscores : i <= j
          IN <<SubSeq(file_name, 1, first - 1),
               SubSeq(file_name, first + 1, Len(file_name))>>

\* getattr(constants.X, name)
GetAttr(members, name) ==
  IF Len(name) = 1 /\ name[1] \in members
  THEN [raised |-> "", value |-> name[1]]
  ELSE [raised |-> "AttributeError", value |-> ""]

Raise(w, exception) == [w EXCEPT !.raised = exception]

\* The two things reading self.animation_anchors can find when
\* update_animations starts: __init__ binds self.anchors = {} and nothing
\* binds self.animation_anchors before the loop.
AnchorsAttr ==
  { [bound |-> "unbound", dict |-> EmptyDict],
    [bound |-> "dict", dict |-> EmptyDict] }

AnchorsNone == [bound |-> "None", dict |-> EmptyDict]

\* update_animations, lines 655-670: the anchors of one sprite file.
StoreAnchors(w, action, direction, file_name, files) ==
  IF File(file_name, ".ini") \in Range(files)
  THEN CASE w.animation_anchors.bound = "unbound" -> Raise(w, "AttributeError")
         [] w.animation_anchors.bound = "None" -> Raise(w, "TypeError")
         [] OTHER ->
              [w EXCEPT !.animation_anchors.dict =
                 NestedPut(@, action, direction, File(file_name, ".ini"))]
  ELSE [w EXCEPT !.animation_anchors = AnchorsNone]

\* update_animations, lines 634-670: the body of the loop for one sprite file.
SpriteStep(w, sprite, files) ==
  LET file_name == sprite.stem
      only == file_name = <<"only">>
      parts == Split(file_name)
      direction_attr == GetAttr(DirectionMembers, parts[2])
      action_attr == GetAttr(ActionMembers, parts[1])
  IN IF only
     THEN StoreAnchors([w EXCEPT !.animations = NestedPut(@, "stand", "south", sprite)],
                       "stand", "south", file_name, files)
     ELSE IF Len(parts) # 2 THEN Raise(w, "ValueError")
     ELSE IF direction_attr.raised # "" THEN Raise(w, direction_attr.raised)
     ELSE IF action_attr.raised # "" THEN Raise(w, action_attr.raised)
     ELSE StoreAnchors([w EXCEPT !.animations =
                          NestedPut(@, action_attr.value, direction_attr.value, sprite)],
                       action_attr.value, direction_attr.value, file_name, files)

RECURSIVE SpriteLoop(_, _, _, _)
SpriteLoop(w, sprite_files, i, files) ==
  IF i > Len(sprite_files) \/ w.raised # "" THEN w
  ELSE SpriteLoop(SpriteStep(w, sprite_files[i], files), sprite_files, i + 1, files)

UpdateAnimations(w, files) ==
  LET sprite_files == GetType(files, ".gif")
  IN IF Not(sprite_files) THEN Raise(w, "BadWalkabout")
     ELSE SpriteLoop(w, sprite_files.files, 1, files)

\* The object before its constructor has run.
Unbuilt(anchors_attr) ==
  [built |-> FALSE, animations |-> EmptyDict, animation_anchors |-> anchors_attr,
   action |-> "", direction |-> "", raised |-> ""]

\* Walkabout.__init__: an exception leaves no walkabout.
WalkaboutInit(w, files) ==
  LET loaded == UpdateAnimations(w, files)
  IN IF loaded.raised # "" THEN loaded
     ELSE [loaded EXCEPT !.built = TRUE, !.action = "stand", !.direction = "south"]

\* runtime_setup: the animations it converts and plays.
SetupPairs(animations) ==
  IF Cardinality(DOMAIN animations) = 1
  THEN {"stand"} \X {"south"}
  ELSE {"walk", "stand"} \X {"north", "south", "east", "west"}

RuntimeSetupOutcome(animations) ==
  IF \A p \in SetupPairs(animations) : HasEntry(animations, p[1], p[2])
  THEN "ok" ELSE "KeyError"

\* self.animations[action][direction]
Select(animations, action, direction) ==
  IF HasEntry(animations, action, direction)
  THEN [raised |-> "", animation |-> animations[action][direction]]
  ELSE [raised |-> "KeyError", animation |-> NoFile]

NotSelected ==
  [via |-> "", action |-> "", direction |-> "", raised |-> "", animation |-> NoFile]

Selection(via, animations, action, direction) ==
  [via |-> via, action |-> action, direction |-> direction,
   raised |-> Select(animations, action, direction).raised,
   animation |-> Select(animations, action, direction).animation]

LoadInit ==
  /\ resource \in Bundles
  /\ walkabout \in {Unbuilt(a) : a \in AnchorsAttr}
  /\ setup = "not run"
  /\ selected = NotSelected
  /\ AnimIdle
  /\ AnchorIdle
  /\ BlitIdle
  /\ MoveIdle

\* Walkabout(directory)
Construct ==
  /\ ~walkabout.built
  /\ walkabout.raised = ""
  /\ walkabout' = WalkaboutInit(walkabout, resource)
  /\ UNCHANGED <<resource, setup, selected>>
  /\ UNCHANGED <<anim_vars, anchor_vars, blit_vars, move_vars>>

\* walkabout.runtime_setup()
RuntimeSetup ==
  /\ walkabout.built
  /\ setup = "not run"
  /\ setup' = RuntimeSetupOutcome(walkabout.animations)
  /\ UNCHANGED <<resource, walkabout, selected>>
  /\ UNCHANGED <<anim_vars, anchor_vars, blit_vars, move_vars>>

\* walkabout[action][direction]
GetItem(action, direction) ==
  /\ walkabout.built
  /\ selected' = Selection("getitem", walkabout.animations, action, direction)
  /\ UNCHANGED <<resource, walkabout, setup>>
  /\ UNCHANGED <<anim_vars, anchor_vars, blit_vars, move_vars>>

\* walkabout.current_animation()
CurrentAnimation ==
  /\ walkabout.built
  /\ selected' = Selection("current_animation", walkabout.animations,
                           walkabout.action, walkabout.direction)
  /\ UNCHANGED <<resource, walkabout, setup>>
  /\ UNCHANGED <<anim_vars, anchor_vars, blit_vars, move_vars>>

LoadNext ==
  \/ Construct
  \/ RuntimeSetup
  \/ \E action \in ActionMembers, direction \in DirectionMembers :
       GetItem(action, direction)
  \/ CurrentAnimation

LoadSpec == LoadInit /\ [][LoadNext]_vars

\* --------------------------------------------------------- Walkabout.blit
\* A scene is the walkabout being drawn, scene[1], followed by its children;
\* children holds their places in the scene, in list order.  Every walkabout
\* of a scene is what the constructor leaves for its bundle.

MaxChildren == 1      \* children of the walkabout being drawn
MaxWalkFrame == 1     \* largest frame index of a walkabout's animation

\* An anchor INI with a head_anchor section for frames 0 .. Len(values) - 1.
HeadIni(values) ==
  <<[name |-> "head_anchor",
     items |-> [i \in 1..Len(values) |-> [key |-> i - 1, value |-> values[i]]]]>>

\* An anchor INI without a head_anchor section.
HandIni == <<[name |-> "hand_anchor", items |-> <<[key |-> 0, value |-> <<0, 0>>]>>]>>

\* The head anchors authored for the drawn walkabout and for a child.
ParentValues == [i \in 1..(MaxWalkFrame + 1) |-> <<1 + i, 3>>]
ChildValues == [i \in 1..(MaxWalkFrame + 1) |-> <<1, i>>]

\* The INIs an author may ship: anchors for the first frames only, for
\* every frame, or for another group.
Inis(values) ==
  {HeadIni(SubSeq(values, 1, n)) : n \in 1..Len(values)} \cup {HandIni}

PlainBundle == <<File(<<"only">>, ".gif")>>
AnchoredBundle == <<File(<<"only">>, ".gif"), File(<<"only">>, ".ini")>>
WalkNorthBundle == <<File(Stem("walk", "north"), ".gif")>>

\* What Walkabout(directory) builds from a bundle.
Built(files) ==
  {w \in {WalkaboutInit(Unbuilt(a), files) : a \in AnchorsAttr} : w.built}

\* A walkabout of a scene: the constructed object, the content of its .ini
\* (if it has one), its position and its children.
Placed(w, ini, position, children) ==
  [animations |-> w.animations, animation_anchors |-> w.animation_anchors,
   action |-> w.action, direction |-> w.direction, ini |-> ini,
   topleft_float |-> position, children |-> children]

Positions == {<<10, 10>>}
Offsets == {<<0, 0>>, <<4, 2>>}

Kinds(values) ==
  {<<w, <<>>>> : w \in Built(PlainBundle) \cup Built(WalkNorthBundle)}
  \cup {<<w, ini>> : w \in Built(AnchoredBundle), ini \in Inis(values)}

Children == UNION {[1..n -> Kinds(ChildValues)] : n \in 0..MaxChildren}

\* A walkabout with its children.
Families ==
  {<<Placed(k[1], k[2], position, [i \in 1..Len(cs) |-> i + 1])>>
     \o [i \in 1..Len(cs) |-> Placed(cs[i][1], cs[i][2], <<0, 0>>, <<>>)] :
     k \in Kinds(ParentValues), position \in Positions, cs \in Children}

\* A walkabout whose .ini has a head anchor for every frame.
Anchored(values) == {<<w, HeadIni(values)>> : w \in Built(AnchoredBundle)}

\* A walkabout with a child that has a child of its own.
Chains ==
  {<<Placed(k[1], k[2], position, <<2>>),
     Placed(c[1], c[2], <<0, 0>>, <<3>>),
     Placed(g[1], g[2], <<0, 0>>, <<>>)>> :
     k \in Kinds(ParentValues), position \in Positions,
     c \in Anchored(ChildValues), g \in Anchored(ChildValues)}

\* A walkabout and another one built from the same bundle, not its child.
Bystanders ==
  {<<Placed(k[1], k[2], position, <<>>), Placed(k[1], k[2], <<0, 0>>, <<>>)>> :
     k \in Kinds(ParentValues), position \in Positions}

Scenes == Families \cup Chains \cup Bystanders

\* AnchorPoint.__sub__
AnchorPointSub(a, b) == <<a.x - b.x, a.y - b.y>>

\* walkabout.animation_anchors[action][direction]
Anchors(w, action, direction) ==
  CASE w.animation_anchors.bound = "None" ->
         [raised |-> "TypeError", anchor_points |-> EmptyDict]
    [] w.animation_anchors.bound = "dict"
       /\ HasEntry(w.animation_anchors.dict, action, direction) ->
         [raised |-> "", anchor_points |-> FromConfig(w.ini).anchor_points]
    [] OTHER -> [raised |-> "KeyError", anchor_points |-> EmptyDict]

\* `self.animation_anchors is None`
IsNone_Never(animation_anchors) == FALSE

IsNone(animation_anchors) == animation_anchors.bound = "None"

\* pyganim's blit: a later drawing goes over the earlier ones.
Draw(who, position, frame, anchor) ==
  [who |-> who, position |-> position, frame |-> frame, anchor |-> anchor]

Paint_First(drawn, drawing) == <<drawing>> \o drawn

\* A drawing that starts from where the walkabout was drawn the last time.
Paint_Drift(drawn, drawing) ==
  Append(drawn,
         IF \E i \in 1..Len(screen) : screen[i].who = drawing.who
         THEN [drawing EXCEPT !.position =
                 LET last == screen[CHOOSE i \in 1..Len(screen) : screen[i].who = drawing.who]
                 IN <<last.position[1] + 1, last.position[2]>>]
         ELSE drawing)

Paint(drawn, drawing) == Append(drawn, drawing)

Blitted(offset, raised, drawn) ==
  [called |-> TRUE, offset |-> offset, raised |-> raised, screen |-> drawn]

\* blit, lines 774-784: the loop over the children.
RECURSIVE ChildLoop(_, _, _, _, _, _, _, _)
ChildLoop(s, at, offset, i, self, parent_anchor, pyganim_frame_index, drawn) ==
  IF i > Len(self.children) THEN Blitted(offset, "", drawn)
  ELSE LET child_walkabout == s[self.children[i]]
           child_anim_anchor == Anchors(child_walkabout, self.action, self.direction)
           child_frame_anchor == GetAnchorPoint(child_anim_anchor.anchor_points,
                                                "head_anchor", pyganim_frame_index)
           child_position == AnchorPointSub(parent_anchor, child_frame_anchor.point)
           child_anim == Select(child_walkabout.animations,
                                child_walkabout.action, child_walkabout.direction)
       IN IF child_anim_anchor.raised # ""
          THEN Blitted(offset, child_anim_anchor.raised, drawn)
          ELSE IF child_frame_anchor.raised # "none"
          THEN Blitted(offset, child_frame_anchor.raised, drawn)
          ELSE IF child_anim.raised # ""
          THEN Blitted(offset, child_anim.raised, drawn)
          ELSE ChildLoop(s, at, offset, i + 1, self, parent_anchor,
                         pyganim_frame_index,
                         Paint(drawn, Draw(self.children[i], child_position,
                                           at[self.children[i]],
                                           child_frame_anchor.point)))

\* blit, lines 750-784.  The animation's elapsed time is read for the drawing
\* (line 756) and for the frame index (line 763); both fall in one call and
\* are taken at the same instant.
BlitResult(s, at, offset) ==
  LET self == s[1]
      position_on_screen == <<self.topleft_float[1] - offset[1],
                              self.topleft_float[2] - offset[2]>>
      pyganim_gif == Select(self.animations, self.action, self.direction)
      drawn == Paint(<<>>, Draw(1, position_on_screen, at[1], NoPoint))
      pyganim_frame_index == at[1]
      animation_anchors == Anchors(self, self.action, self.direction)
      frame_anchor == GetAnchorPoint(animation_anchors.anchor_points,
                                     "head_anchor", pyganim_frame_index)
      parent_anchor == AnchorPoint(position_on_screen[1] + frame_anchor.point.x,
                                   position_on_screen[2] + frame_anchor.point.y)
  IN IF pyganim_gif.raised # "" THEN Blitted(offset, pyganim_gif.raised, <<>>)
     ELSE IF IsNone(self.animation_anchors) THEN Blitted(offset, "", drawn)
     ELSE IF animation_anchors.raised # ""
     THEN Blitted(offset, animation_anchors.raised, drawn)
     ELSE IF frame_anchor.raised # "none"
     THEN Blitted(offset, frame_anchor.raised, drawn)
     ELSE ChildLoop(s, at, offset, 1, self, parent_anchor,
                    pyganim_frame_index, drawn)

NotBlitted == [called |-> FALSE, offset |-> <<0, 0>>, raised |-> ""]

BlitInit ==
  /\ scene \in Scenes
  /\ clock = [i \in 1..Len(scene) |-> 0]
  /\ screen = <<>>
  /\ blitted = NotBlitted
  /\ AnimIdle
  /\ AnchorIdle
  /\ LoadIdle
  /\ MoveIdle

\* The wall clock moves a playing animation to another frame.
Advance(who, frame) ==
  /\ who \in 1..Len(scene)
  /\ clock' = [clock EXCEPT ![who] = frame]
  /\ UNCHANGED <<scene, screen, blitted>>
  /\ UNCHANGED <<anim_vars, anchor_vars, load_vars, move_vars>>

\* A blit that turns the walkabout it draws.
Blit_FacesNorth(offset) ==
  /\ screen' = BlitResult(scene, clock, offset).screen
  /\ blitted' = [called |-> TRUE, offset |-> offset,
                 raised |-> BlitResult(scene, clock, offset).raised]
  /\ scene' = [scene EXCEPT ![1].direction = "north"]
  /\ UNCHANGED clock
  /\ UNCHANGED <<anim_vars, anchor_vars, load_vars, move_vars>>

\* A blit that rewinds every animation there is.
Blit_RewindsAll(offset) ==
  /\ screen' = BlitResult(scene, clock, offset).screen
  /\ blitted' = [called |-> TRUE, offset |-> offset,
                 raised |-> BlitResult(scene, clock, offset).raised]
  /\ clock' = [w \in 1..Len(scene) |-> 0]
  /\ UNCHANGED scene
  /\ UNCHANGED <<anim_vars, anchor_vars, load_vars, move_vars>>

\* scene[1].blit(screen, offset)
Blit(offset) ==
  /\ screen' = BlitResult(scene, clock, offset).screen
  /\ blitted' = [called |-> TRUE, offset |-> offset,
                 raised |-> BlitResult(scene, clock, offset).raised]
  /\ UNCHANGED <<scene, clock>>
  /\ UNCHANGED <<anim_vars, anchor_vars, load_vars, move_vars>>

BlitNext ==
  \/ \E who \in 1..(MaxChildren + 2), frame \in 0..MaxWalkFrame : Advance(who, frame)
  \/ \E offset \in Offsets : Blit(offset)

BlitSpec == BlitInit /\ [][BlitNext]_vars

\* ------------------------------------------------------- HumanPlayer.move
\* Positions are floats in the source; the model keeps them in thousandths of
\* a pixel, the unit in which `time_elapsed_milliseconds / 1000.0` pixels are
\* whole numbers.  pygame.Rect keeps whole pixels.

MaxCoord == 3         \* pixels: the part of the scene the player stays in
MaxVelocity == 2      \* pixels per second, per axis
Thousand == 1000      \* line 40: milliseconds in a second

Velocities == {<<x, y>> : x \in {MaxVelocity}, y \in (-1)..MaxVelocity}
Elapsed == {500, 1000}                 \* game.screen.time_elapsed_milliseconds
BlockCells == {<<2, 1>>, <<1, 3>>}     \* pixels of the scene something may stand on
Starts == {<<1, 1>>}                   \* where the walkabout is created, in pixels
ViewportCorners == {<<0, 0>>, <<1, 0>>, <<2, 3>>}   \* viewport.rect.topleft

\* int(): the whole pixels of a coordinate, toward zero.
Pixels(thousandths) ==
  IF thousandths >= 0 THEN thousandths \div Thousand ELSE -((-thousandths) \div Thousand)

\* pygame.Rect((x, y), size) from float coordinates
Rect(x, y, size) == [x |-> Pixels(x), y |-> Pixels(y), w |-> size[1], h |-> size[2]]

Smaller(a, b) == IF a <= b THEN a ELSE b
Larger(a, b) == IF a >= b THEN a ELSE b

\* pygame.Rect.union: the rectangle that covers both.
Union(a, b) ==
  [x |-> Smaller(a.x, b.x), y |-> Smaller(a.y, b.y),
   w |-> Larger(a.x + a.w, b.x + b.w) - Smaller(a.x, b.x),
   h |-> Larger(a.y + a.h, b.y + b.h) - Smaller(a.y, b.y)]

\* game.scene.collide_check(rect): something of the scene lies in the rect.
CollideCheck(blocked, rect) ==
  \E cell \in blocked :
    /\ rect.x <= cell[1] /\ cell[1] < rect.x + rect.w
    /\ rect.y <= cell[2] /\ cell[2] < rect.y + rect.h

\* Lines 35-38: the velocity component for the direction's axis.
PlannedMovement(velocity, direction) ==
  IF direction \in {"north", "south"} THEN velocity[2] ELSE velocity[1]

\* Line 41: max([1, int(planned_movement_in_pixels)]); the velocities of the
\* model are whole numbers of pixels.
IterPixels(planned) == Larger(1, planned)

\* A step that also slides along the other axis.
Displace_Diagonal(direction, x, y, amount) ==
  CASE direction = "north" -> <<x + amount, y - amount>>
    [] direction = "east" -> <<x + amount, y + amount>>
    [] direction = "south" -> <<x - amount, y + amount>>
    [] direction = "west" -> <<x - amount, y - amount>>
    [] OTHER -> <<x, y>>

\* Lines 53-60: the trial position.
Displace(direction, x, y, amount) ==
  CASE direction = "north" -> <<x, y - amount>>
    [] direction = "east" -> <<x + amount, y>>
    [] direction = "south" -> <<x, y + amount>>
    [] direction = "west" -> <<x - amount, y>>
    [] OTHER -> <<x, y>>

\* Lines 44-78: the trial steps, longest first.  adj_speed stays 1 once the
\* two-pixel step has set it.
RECURSIVE TrialLoop(_, _, _, _, _)
TrialLoop(p, blocked, direction, pixels, adj_speed) ==
  IF pixels < 1
  THEN [p EXCEPT !.active_action = "stand", !.returned = FALSE]
  ELSE LET adj == IF pixels = 2 THEN Thousand ELSE adj_speed
           new_topleft == Displace(direction, p.float_x, p.float_y, pixels * adj)
           destination_rect == Rect(new_topleft[1], new_topleft[2], <<p.rect.w, p.rect.h>>)
           collision_rect == Union(p.rect, destination_rect)
       IN IF ~CollideCheck(blocked, collision_rect)
          THEN [p EXCEPT !.active_action = "walk", !.returned = TRUE,
                         !.float_x = new_topleft[1], !.float_y = new_topleft[2]]
          ELSE TrialLoop(p, blocked, direction, pixels - 1, adj)

\* move(game, direction), lines 32-78.
MoveCall(p, blocked, direction, time_elapsed_milliseconds) ==
  LET planned_movement_in_pixels == PlannedMovement(p.velocity, direction)
      adj_speed == time_elapsed_milliseconds
      iter_pixels == IterPixels(planned_movement_in_pixels)
  IN TrialLoop([p EXCEPT !.active_direction = direction],
               blocked, direction, iter_pixels, adj_speed)

\* AbsolutePosition.relative with an argument it changes the position by.
Relative_InPlace(float_x, float_y, topleft) ==
  [result |-> <<float_x - topleft[1] * Thousand, float_y - topleft[2] * Thousand>>,
   float_x |-> float_x - topleft[1] * Thousand, float_y |-> float_y - topleft[2] * Thousand]

\* AbsolutePosition.relative: the result, and the position it leaves.
Relative(float_x, float_y, topleft) ==
  [result |-> <<float_x - topleft[1] * Thousand, float_y - topleft[2] * Thousand>>,
   float_x |-> float_x, float_y |-> float_y]

\* A player's walkabout: what Walkabout.__init__ built, the rect it made at
\* the start position, and the attributes move reads and writes.  Nothing
\* binds active_action and active_direction before the first move.
Player(w, start, velocity) ==
  [animations |-> w.animations, action |-> w.action, direction |-> w.direction,
   rect |-> Rect(start[1] * Thousand, start[2] * Thousand, <<1, 1>>),
   float_x |-> start[1] * Thousand, float_y |-> start[2] * Thousand,
   velocity |-> velocity,
   active_action |-> "unbound", active_direction |-> "unbound", returned |-> FALSE]

NotMoved == [called |-> FALSE, direction |-> "", elapsed |-> 0, from |-> <<0, 0>>]
NotReported == [called |-> FALSE, topleft |-> <<0, 0>>, result |-> <<0, 0>>]

InScene(p) ==
  /\ 0 <= p.float_x /\ p.float_x <= MaxCoord * Thousand
  /\ 0 <= p.float_y /\ p.float_y <= MaxCoord * Thousand

MoveInit ==
  /\ player \in {Player(w, start, velocity) :
                   w \in Built(PlainBundle) \cup Built(DebugBundle),
                   start \in Starts, velocity \in Velocities}
  /\ world \in SUBSET BlockCells
  /\ moved = NotMoved
  /\ reported = NotReported
  /\ AnimIdle
  /\ AnchorIdle
  /\ LoadIdle
  /\ BlitIdle

\* player.move(game, direction)
Move(direction, time_elapsed_milliseconds) ==
  /\ InScene(MoveCall(player, world, direction, time_elapsed_milliseconds))
  /\ player' = MoveCall(player, world, direction, time_elapsed_milliseconds)
  /\ moved' = [called |-> TRUE, direction |-> direction,
               elapsed |-> time_elapsed_milliseconds,
               from |-> <<player.float_x, player.float_y>>]
  /\ UNCHANGED <<world, reported>>
  /\ UNCHANGED <<anim_vars, anchor_vars, load_vars, blit_vars>>

MoveNext ==
  \E direction \in DirectionMembers, ms \in Elapsed : Move(direction, ms)

MoveSpec == MoveInit /\ [][MoveNext]_vars

\* A position somewhere in the scene, asked for its place in a viewport.
RelativeInit ==
  /\ player \in {[Player(w, start, <<0, 0>>) EXCEPT !.float_x = x, !.float_y = y] :
                   w \in Built(PlainBundle), start \in Starts,
                   x \in {h * 500 : h \in 0..(2 * MaxCoord)},
                   y \in {h * 500 : h \in 0..(2 * MaxCoord)}}
  /\ world = {}
  /\ moved = NotMoved
  /\ reported = NotReported
  /\ AnimIdle
  /\ AnchorIdle
  /\ LoadIdle
  /\ BlitIdle

\* walkabout.absolute_position.relative(viewport)
AskRelative(topleft) ==
  /\ reported' = [called |-> TRUE, topleft |-> topleft,
                  result |-> Relative(player.float_x, player.float_y, topleft).result]
  /\ player' = [player EXCEPT
                  !.float_x = Relative(player.float_x, player.float_y, topleft).float_x,
                  !.float_y = Relative(player.float_x, player.float_y, topleft).float_y]
  /\ UNCHANGED <<world, moved>>
  /\ UNCHANGED <<anim_vars, anchor_vars, load_vars, blit_vars>>

RelativeNext == \E topleft \in ViewportCorners : AskRelative(topleft)

RelativeSpec == RelativeInit /\ [][RelativeNext]_vars

\* ================================================================ claims
\* C1-C8 are checked under Spec, C9-C12 under AnchorSpec, C13-C16 under
\* LoadSpec, C17-C20 under BlitSpec; of C21-C29, C21 and C29 under MoveSpec,
\* C22 under RelativeSpec, C23-C25 and C28 under BlitSpec, C26 under LoadSpec
\* and C27 under Spec.

ActiveFrame == frames[current_frame_index + 1]
MultiFrame == Len(frames) > 1

\* C1: after any sequence of update calls, whatever the deltas, the active
\* frame index is an index of the frame list: 0 <= current_frame_index < n.
C1_IndexInRange ==
  current_frame_index >= 0 /\ current_frame_index < Len(frames)

\* C1's case: a delta larger than total_duration has sent a multi-frame
\* sprite into the forward scan, which has run at least once.
C1_LargeDeltaScanned ==
  /\ MultiFrame
  /\ elapsed_timedelta > total_duration
  /\ pc = "scan"
  /\ current_frame > 0

\* C2: once an update call has returned, the active frame's half-open
\* interval holds the playback time: start_time <= time < end_time.
C2_ActiveFrameHoldsTime ==
  pc = "idle" =>
    /\ C1_IndexInRange
    /\ ActiveFrame.start_time <= animation_time
    /\ animation_time < ActiveFrame.end_time

\* C3: a multi-frame sprite at time 0, frame 0, updated by exactly
\* total_duration, is at time 0, frame 0 again.
C3_WrapAtTotal ==
  [][(/\ pc = "idle"
      /\ MultiFrame
      /\ animation_time = 0
      /\ current_frame_index = 0
      /\ elapsed_timedelta' = total_duration)
     => (animation_time' = 0 /\ current_frame_index' = 0)]_vars

\* C4: an update by d from time e leaves the time at (e + d) mod
\* total_duration, which is in [0, total_duration).
C4_TimeIsSumModTotal ==
  [][(pc = "idle" /\ MultiFrame)
     => (/\ animation_time' = (animation_time + elapsed_timedelta') % total_duration
         /\ animation_time' >= 0
         /\ animation_time' < total_duration)]_vars

\* C5: an update by 0 changes neither the active frame index nor the
\* playback time.
C5_ZeroAdvanceNoChange ==
  [][(pc = "idle" /\ elapsed_timedelta' = 0)
     => (/\ current_frame_index' = current_frame_index
         /\ animation_time' = animation_time)]_vars

\* C5's case: a multi-frame sprite that has been advanced and then updated
\* by 0.
C5_ZeroAdvanceTaken ==
  /\ MultiFrame
  /\ animation_time > 0
  /\ elapsed_timedelta = 0
  /\ pc = "idle"

\* C6: the forward scan ends: every pass of the loop that leaves its
\* condition true has moved on the index the condition reads, so the
\* condition is falsified after finitely many passes.
C6_ScanAdvancesItsIndex ==
  [][(pc = "scan" /\ pc' = "scan")
     => current_frame_index' > current_frame_index]_vars

\* C7: the frames partition [0, total_duration): the first starts at 0, each
\* next one starts where the previous ends, end_time = start_time + duration,
\* and total_duration is the sum of the durations and the last end_time.
C7_FramesPartition ==
  /\ frames[1].start_time = 0
  /\ \A i \in 1..(Len(frames) - 1) : frames[i + 1].start_time = frames[i].end_time
  /\ \A i \in 1..Len(frames) : frames[i].end_time = frames[i].start_time + frames[i].duration
  /\ total_duration = TotalDuration(Durations(frames))
  /\ total_duration = frames[Len(frames)].end_time

Called == outcome # NotCalled
KnownGroup == query.anchor_point_group \in DOMAIN anchor_points
QueriedGroup == anchor_points[query.anchor_point_group]

\* C9: for a known group with L >= 1 entries and a frame index k >= 0, the
\* lookup returns entry k when k < L and the last entry when k >= L, and
\* raises nothing.
C9_ExactOrLastEntry ==
  (Called /\ KnownGroup /\ Len(QueriedGroup) >= 1 /\ query.frame_index >= 0)
  => /\ outcome.raised = "none"
     /\ outcome.point =
          IF query.frame_index < Len(QueriedGroup)
          THEN QueriedGroup[query.frame_index + 1]
          ELSE QueriedGroup[Len(QueriedGroup)]

\* C9's case: head_anchor has entries for frames 0 and 1 only, and frame 2
\* was looked up and got frame 1's entry, which is not frame 0's.
C9_Frame2GetsFrame1 ==
  /\ Called
  /\ query = [anchor_point_group |-> "head_anchor", frame_index |-> 2]
  /\ KnownGroup
  /\ Len(QueriedGroup) = 2
  /\ outcome.point = QueriedGroup[2]
  /\ QueriedGroup[2] # QueriedGroup[1]

KeySet(section) == {section.items[i].key : i \in 1..Len(section.items)}
DenseKeys(section) == KeySet(section) = 0..(Len(section.items) - 1)

\* C11: whatever the order of a section's index="x,y" lines, position i of
\* the group's stored sequence holds the coordinate written under key i.
C11_StoredByFrameKey ==
  \A s \in 1..Len(anchor_ini) :
    DenseKeys(anchor_ini[s]) =>
      \A i \in 1..Len(anchor_ini[s].items) :
        LET item == anchor_ini[s].items[i]
        IN anchor_points[anchor_ini[s].name][item.key + 1]
             = AnchorPoint(item.value[1], item.value[2])

\* C12: no table is built from an INI in which some group's frame-index keys
\* have a gap: every table there is comes from sections with keys 0..L-1.
C12_NoTableFromGappedKeys ==
  \A s \in 1..Len(anchor_ini) :
    anchor_ini[s].name \in DOMAIN anchor_points => DenseKeys(anchor_ini[s])

\* The constructor has run: it built the walkabout or raised.
Attempted == walkabout.built \/ walkabout.raised # ""
GifFiles == {f \in Range(resource) : f.ext = ".gif"}
OnlyGif == File(<<"only">>, ".gif")
BuiltFromOnly == walkabout.built /\ GifFiles = {OnlyGif}
Entries(animations) ==
  UNION {{<<a, d>> : d \in DOMAIN animations[a]} : a \in DOMAIN animations}

\* C13: on a walkabout built from the single animation `only`, selecting an
\* animation for any (action, direction) pair succeeds and returns that one
\* animation.
C13_OnlyAnswersEveryPair ==
  (BuiltFromOnly /\ selected.via # "") =>
     (selected.raised = "" /\ selected.animation = OnlyGif)

ValidName(stem) ==
  \/ stem = <<"only">>
  \/ \E a \in ActionMembers, d \in DirectionMembers : stem = Stem(a, d)
KeyOf(stem) == IF stem = <<"only">> THEN <<"stand", "south">> ELSE <<stem[1], stem[3]>>

\* C14: a load whose animation files are all named `only` or
\* {action}_{direction} stores each under the key its name spells; a load with
\* any other animation file name is aborted with BadWalkaboutAsset.
C14_NamesDecideTheLoad ==
  (Attempted /\ GifFiles # {}) =>
     IF \A f \in GifFiles : ValidName(f.stem)
     THEN /\ walkabout.built
          /\ \A f \in GifFiles :
               HasEntry(walkabout.animations, KeyOf(f.stem)[1], KeyOf(f.stem)[2])
     ELSE walkabout.raised = "BadWalkaboutAsset"

\* C15: once a walkabout with more than one animation has been constructed
\* and set up without an error, no selection for a valid (action, direction)
\* pair fails.
C15_MultiEntrySetNeverMisses ==
  ( /\ walkabout.built
    /\ Cardinality(Entries(walkabout.animations)) > 1
    /\ setup = "ok"
    /\ selected.via # "" ) => selected.raised = ""

\* C16: constructing a walkabout from a bundle without any .gif file raises
\* BadWalkabout and builds nothing; with some .gif file in the bundle the
\* constructor does not raise BadWalkabout.
C16_NoGifIsBadWalkabout ==
  Attempted =>
     IF GifFiles = {}
     THEN walkabout.raised = "BadWalkabout" /\ ~walkabout.built
     ELSE walkabout.raised # "BadWalkabout"

C16_BundleWithoutGifRefused ==
  /\ resource # <<>>
  /\ GifFiles = {}
  /\ walkabout.raised = "BadWalkabout"

\* The children the last blit drew, as places in the drawing order.
ChildEntries == {i \in 1..Len(screen) : screen[i].who # 1}

\* The head anchor of a walkabout's own current animation at a frame.
OwnAnchor(w, frame) ==
  GetAnchorPoint(Anchors(w, w.action, w.direction).anchor_points, "head_anchor", frame)

Plus(position, anchor) == <<position[1] + anchor.x, position[2] + anchor.y>>

\* C17: after a blit, each child drawn has its anchor where the parent's
\* anchor is: child position + the child's anchor at the child's own frame
\* equals parent position + the parent's anchor at the parent's frame.  The
\* child's position is its topleft_float or, failing that, the place the blit
\* drew it at (brought back from screen coordinates by the offset).
C17_AnchorsCoincide ==
  \A i \in ChildEntries :
    LET child == scene[screen[i].who]
        own == OwnAnchor(child, screen[i].frame)
        drawn_at == <<screen[i].position[1] + blitted.offset[1],
                      screen[i].position[2] + blitted.offset[2]>>
        target == Plus(scene[1].topleft_float, OwnAnchor(scene[1], screen[1].frame).point)
    IN \E position \in {child.topleft_float, drawn_at} :
         Plus(position, own.point) = target

\* C18: the anchor a blit uses for a child is the head anchor of the child's
\* own current animation at the child's own frame index.
C18_ChildAnchorAtOwnFrame ==
  \A i \in ChildEntries :
    screen[i].anchor = OwnAnchor(scene[screen[i].who], screen[i].frame).point

\* The walkabout drawn has a current animation and no anchors.
ParentWithoutAnchors ==
  /\ Select(scene[1].animations, scene[1].action, scene[1].direction).raised = ""
  /\ scene[1].animation_anchors.bound = "None"

\* C19: a blit of a walkabout without anchors raises nothing, draws no child
\* and leaves every child's topleft_float as it was.
C19_NoAnchorsNoChildMoved ==
  [][ (ParentWithoutAnchors /\ blitted' # blitted) =>
        /\ blitted'.raised = ""
        /\ \A i \in 1..Len(screen') : screen'[i].who = 1
        /\ \A c \in 1..Len(scene) :
             scene'[c].topleft_float = scene[c].topleft_float ]_vars

C19_BlitWithoutAnchors ==
  /\ blitted.called
  /\ ParentWithoutAnchors
  /\ Len(scene[1].children) > 0
  /\ Len(screen) = 1

\* C20: a blit draws the walkabout itself first and its children after it, in
\* list order, each child placed against the walkabout's anchor at the frame
\* the walkabout was drawn at in this blit.
C20_SelfBeforeChildren ==
  blitted.called =>
    /\ \A i \in 1..Len(screen) : (screen[i].who = 1) <=> (i = 1)
    /\ \A i \in ChildEntries : screen[i].who = scene[1].children[i - 1]
    /\ \A i \in ChildEntries :
         screen[i].position =
           AnchorPointSub(
             AnchorPoint(screen[1].position[1] + OwnAnchor(scene[1], screen[1].frame).point.x,
                         screen[1].position[2] + OwnAnchor(scene[1], screen[1].frame).point.y),
             screen[i].anchor)

C20_ChildDrawnAtNewFrame ==
  /\ blitted.called
  /\ blitted.raised = ""
  /\ Len(screen) > 1
  /\ screen[1].frame = 1

\* The sprite files of the bundle that have a like-named .ini beside them.
WithSidecar == {f \in GifFiles : File(f.stem, ".ini") \in Range(resource)}
DistinctKeys ==
  \A f, g \in GifFiles :
    (ValidName(f.stem) /\ ValidName(g.stem) /\ f # g) => KeyOf(f.stem) # KeyOf(g.stem)

\* C26: a bundle of validly named animations loads whatever the order of its
\* files, and afterwards an animation has an anchor table, the one parsed
\* from its own .ini, exactly when that .ini is in the bundle.
C26_SidecarDecidesAnchors ==
  (Attempted /\ GifFiles # {} /\ DistinctKeys /\ \A f \in GifFiles : ValidName(f.stem)) =>
     /\ walkabout.built
     /\ \A f \in GifFiles :
          LET action == KeyOf(f.stem)[1]
              direction == KeyOf(f.stem)[2]
              paired == /\ walkabout.animation_anchors.bound = "dict"
                        /\ HasEntry(walkabout.animation_anchors.dict, action, direction)
          IN IF f \in WithSidecar
             THEN paired /\ walkabout.animation_anchors.dict[action][direction]
                              = File(f.stem, ".ini")
             ELSE ~paired

\* The playback state a call update() with delta d leaves behind `st`; a call
\* that has not returned admits no further call.
Advanced(st, d) ==
  IF st.pc = "idle"
  THEN UpdateCall(frames, total_duration, elapsed_time_reads,
                  st.animation_time, st.current_frame_index, d)
  ELSE st

Playback ==
  [animation_time |-> animation_time, current_frame_index |-> current_frame_index,
   pc |-> pc]

\* C27: between calls, update with a and then with b ends as one update with
\* a + b does: both return or neither does, and if they return the time and
\* the frame index are the same.
C27_AdvanceIsAdditive ==
  pc = "idle" =>
    \A a, b \in 0..MaxDelta :
      (a + b <= MaxDelta) =>
        LET two == Advanced(Advanced(Playback, a), b)
            one == Advanced(Playback, a + b)
        IN /\ (two.pc = "idle") <=> (one.pc = "idle")
           /\ one.pc = "idle" => two = one

\* The walkabouts of the tree under w: w, its children, their children.
RECURSIVE Subtree(_, _)
Subtree(s, w) ==
  {w} \cup UNION {Subtree(s, s[w].children[i]) : i \in 1..Len(s[w].children)}

\* w belongs to the tree the blit draws.
Subtree_Has(w) == w \in Subtree(scene, 1)

\* A walkabout with anchors of its own.
HasAnchorData(w) == w.animation_anchors.bound = "dict"

\* The last blit returned normally.
BlitReturned == blitted.called /\ blitted.raised = ""

\* C23: a blit that returns has drawn every walkabout of the tree once,
\* children of children included, when all of them have anchors.
C23_EveryLevelDrawn ==
  (BlitReturned /\ \A w \in 1..Len(scene) : HasAnchorData(scene[w])) =>
     \A w \in 1..Len(scene) :
       Subtree_Has(w) => Cardinality({i \in 1..Len(screen) : screen[i].who = w}) = 1

\* C24: a blit changes no walkabout's action or direction, and not the
\* position of the walkabout it draws.
C24_BlitKeepsFacing ==
  [][ blitted' # blitted =>
        /\ \A w \in 1..Len(scene) :
             /\ scene'[w].action = scene[w].action
             /\ scene'[w].direction = scene[w].direction
        /\ scene'[1].topleft_float = scene[1].topleft_float ]_vars

C24_BlitWithOffset ==
  /\ BlitReturned
  /\ Len(screen) > 1
  /\ blitted.offset # <<0, 0>>

\* C25: a blit leaves alone every walkabout outside the tree it draws: its
\* frame, position, action, direction and anchors.
C25_OutsidersUntouched ==
  [][ blitted' # blitted =>
        \A w \in 1..Len(scene) :
          ~Subtree_Has(w) => (scene'[w] = scene[w] /\ clock'[w] = clock[w]) ]_vars

C25_BystanderAtFrame1 ==
  /\ BlitReturned
  /\ \E w \in 1..Len(scene) :
       /\ ~Subtree_Has(w)
       /\ clock[w] = 1
       /\ scene[w].animations = scene[1].animations

\* The frames the last blit drew at are the frames the animations are at.
NoTimePassed == \A i \in 1..Len(screen) : screen[i].frame = clock[screen[i].who]

Places(drawn) == [i \in 1..Len(drawn) |-> <<drawn[i].who, drawn[i].position>>]

C21_ActivePairResolves ==
  moved.called =>
    HasEntry(player.animations, player.active_action, player.active_direction)

\* C22: relative(viewport) returns the position minus the viewport's top-left
\* corner, coordinate by coordinate, and leaves the position as it was.
C22_RelativeSubtracts ==
  [][ reported' # reported =>
        /\ reported'.result[1] = player.float_x - reported'.topleft[1] * Thousand
        /\ reported'.result[2] = player.float_y - reported'.topleft[2] * Thousand
        /\ player'.float_x = player.float_x
        /\ player'.float_y = player.float_y ]_vars

C22_AskedOffOrigin ==
  /\ reported.called
  /\ reported.topleft = <<2, 3>>
  /\ player.float_x = 2500
  /\ reported.result = <<500, player.float_y - 3000>>

\* The unit step of a direction, and the trial steps of the last move.
Unit(direction) ==
  CASE direction = "north" -> <<0, -1>>
    [] direction = "east" -> <<1, 0>>
    [] direction = "south" -> <<0, 1>>
    [] direction = "west" -> <<-1, 0>>
LongestTrial ==
  LET v == IF moved.direction \in {"north", "south"}
           THEN player.velocity[2] ELSE player.velocity[1]
  IN IF v > 1 THEN v ELSE 1
\* The length of the trial step of `pixels` pixels, in thousandths: the
\* elapsed fraction of a second per pixel, a whole pixel per pixel from the
\* two-pixel step on.
TrialLength(pixels) ==
  pixels * (IF 2 \in pixels..LongestTrial THEN Thousand ELSE moved.elapsed)
TrialFree(pixels) ==
  LET x == moved.from[1] + TrialLength(pixels) * Unit(moved.direction)[1]
      y == moved.from[2] + TrialLength(pixels) * Unit(moved.direction)[2]
  IN ~CollideCheck(world, Union(player.rect, Rect(x, y, <<player.rect.w, player.rect.h>>)))
FreeTrials == {pixels \in 1..LongestTrial : TrialFree(pixels)}

\* C29: a move sets active_direction to its direction.  If some trial step
\* is free of collisions it returns True, sets active_action to walk and has
\* moved the position by the longest such step along the direction's axis,
\* the other coordinate unchanged; if none is, it returns False, sets
\* active_action to stand and leaves the position where it was.
C29_MoveOutcome ==
  moved.called =>
    /\ player.active_direction = moved.direction
    /\ player.returned <=> (FreeTrials # {})
    /\ IF player.returned
       THEN /\ player.active_action = "walk"
            /\ \E pixels \in FreeTrials :
                 /\ \A other \in FreeTrials : other <= pixels
                 /\ player.float_x =
                      moved.from[1] + TrialLength(pixels) * Unit(moved.direction)[1]
                 /\ player.float_y =
                      moved.from[2] + TrialLength(pixels) * Unit(moved.direction)[2]
       ELSE /\ player.active_action = "stand"
            /\ <<player.float_x, player.float_y>> = moved.from

C29_BlockedThenShorterStep ==
  /\ moved.called
  /\ player.returned
  /\ LongestTrial = 2
  /\ FreeTrials = {1}

====
